---------------------------- MODULE Spec2Model ----------------------------
(***************************************************************************)
(* Model of the voice transport core of llas                               *)
(* (src/src-tauri/src/audio/network.rs): the JitterBuffer, the             *)
(* QualityMonitor, the TURN client and the AudioNetwork send and receive   *)
(* paths.                                                                  *)
(*                                                                         *)
(* The specifications share the variables:                                 *)
(*   JBSpec     one JitterBuffer driven by arbitrary add_packet and        *)
(*              get_next_packet calls;                                     *)
(*   DrainSpec  one JitterBuffer(20, 50) fed a script of sequence          *)
(*              numbers, get_next_packet called after each add until it    *)
(*              returns None (the scenarios of spec section 8);            *)
(*   SendSpec   one AudioNetwork: add_peer, remove_peer, the capture       *)
(*              callback's try_send, start_streaming and its task,         *)
(*              send_audio;                                                *)
(*   RecvSpec   one AudioNetwork: add_peer, remove_peer, handle_incoming   *)
(*              and its receive task;                                      *)
(*   MonSpec    one QualityMonitor, update called with any sequence        *)
(*              numbers, get_stats after each;                             *)
(*   WindowSpec one QualityMonitor fed a steady stream longer than its     *)
(*              sample windows;                                            *)
(*   StatsSpec  one QualityMonitor fed runs of a chosen spacing and loss,  *)
(*              get_stats after each arrival;                              *)
(*   TurnSpec   AudioNetwork::new: the allocation request and              *)
(*              process_turn_response on the response datagram;            *)
(*   AllocSpec  the bytes of the allocation request, for any TurnConfig;   *)
(*   SessionSpec the start_streaming and stop_streaming commands of        *)
(*              main.rs, the capture callback and the tasks of a session;  *)
(*   LagSpec    the receive task publishing a long stream and the decoder  *)
(*              task subscribed to the decoded-frame broadcast.            *)
(* The send side and the receive side share only the peer registry, which  *)
(* both specifications include.                                            *)
(*                                                                         *)
(* u32 arithmetic: TLC's integers are 32-bit signed, so a u32 is modelled  *)
(* at WordBits bits: every u32 operation is taken modulo 2^WordBits, and   *)
(* U32Max = 2^WordBits - 1 stands for 0xFFFF_FFFF.  Rust checks integer    *)
(* overflow in a debug build (the thread panics) and wraps in a release    *)
(* build; the variable build fixes which one the binary is.                *)
(***************************************************************************)
EXTENDS Integers, Sequences, FiniteSets, TLC

VARIABLES
    build,          \* "debug" | "release": the profile the binary was built with
    \* ---- the JitterBuffer under test (JBSpec, DrainSpec)
    jb,             \* the JitterBuffer struct
    released,       \* payloads get_next_packet has returned, in order
    adds,           \* number of add_packet calls made
    last_added,     \* sequence of the latest add_packet call
    in_order,       \* every add_packet so far had a larger sequence than the one before
    panicked,       \* an arithmetic overflow panicked (debug build)
    \* ---- the driver of DrainSpec and StatsSpec
    script,         \* the sequence numbers to feed
    pos,            \* index of the next script entry
    phase,          \* "add" | "drain" | "feed" | "idle"
    \* ---- the AudioNetwork (SendSpec, RecvSpec)
    now,            \* the clock, in ms (Instant::now, SystemTime::now)
    peers,          \* AudioNetwork.peers: Vec<SocketAddr>
    jitter_buffers, \* AudioNetwork.jitter_buffers: HashMap<SocketAddr, JitterBuffer>
    quality_monitors, \* AudioNetwork.quality_monitors: HashMap<SocketAddr, QualityMonitor>
    sequence_counter, \* AudioNetwork.sequence: AtomicU32
    send_chan,      \* the mpsc channel whose receiver start_streaming is given
    stream,         \* the task start_streaming spawns: [started, peers]
    rx,             \* the tasks handle_incoming spawns:
                    \*   [started, panicked, jitter_buffers, quality_monitors, decoder]
                    \*   decoder: [running, next, processed, slots]
    frames,         \* log: one record per frame sent, with the datagrams handed to send_to
    audio_pub,      \* log: messages sent on the audio_tx broadcast
    stats_pub,      \* log: messages sent on the stats_tx broadcast
    last_rx,        \* the latest datagram recv_from returned: [addr, dgram]
    last_call,      \* the latest registry call: [op, addr, registered]
    counts,         \* calls made so far: [peer_ops, produced, recv]
    \* ---- the QualityMonitor under test (MonSpec, WindowSpec, StatsSpec)
    qm,             \* the QualityMonitor struct
    updates,        \* log: the sequence numbers passed to update, in call order
    qm_panicked,    \* an arithmetic overflow in update panicked (debug build)
    stats,          \* what the latest get_stats call returned
    \* ---- the TURN allocation (TurnSpec)
    turn,           \* [phase, config, transaction_id, request, hashed, fixture, response,
                    \*  result, outcome, error, network]
    \* ---- the streaming session of main.rs (SessionSpec)
    session         \* [network, processor, capture, chans, send_tasks, recv_tasks, starts,
                    \*  stopped, offered, handed, last_datagram]

jbVars == <<jb, released, adds, last_added, in_order, panicked>>
drvVars == <<script, pos, phase>>
netVars == <<now, peers, jitter_buffers, quality_monitors, sequence_counter, send_chan, stream,
             rx, frames, audio_pub, stats_pub, last_rx, last_call, counts>>
monVars == <<qm, updates, qm_panicked, stats>>
unitVars == <<qm, updates, qm_panicked, stats, turn, session>>
vars == <<build, jb, released, adds, last_added, in_order, panicked, script, pos, phase,
          now, peers, jitter_buffers, quality_monitors, sequence_counter, send_chan, stream,
          rx, frames, audio_pub, stats_pub, last_rx, last_call, counts,
          qm, updates, qm_panicked, stats, turn, session>>

---------------------------------------------------------------------------
(* Bounds of the model *)

WordBits == 16          \* width at which u32 is modelled
MaxAdds == 3            \* add_packet calls in JBSpec
MaxSeq == 3             \* small sequence numbers 0..MaxSeq offered to add_packet
ScriptLen == 5          \* longest script of DrainSpec
ScriptMaxSeq == 5       \* scripts are over 1..ScriptMaxSeq

(* Program constants *)

DefaultMinDelay == 20   \* add_peer: JitterBuffer::new(20, 50)
DefaultMaxDelay == 50
FrameMs == 10           \* get_next_packet: buffer.len() * 10

Modulus == 2 ^ WordBits
U32Max == Modulus - 1

Builds == {"debug", "release"}

\* Payloads: byte vectors
Payloads == {<<1>>, <<2>>}
PayloadOf(s) == <<s>>

\* Sequence numbers offered to add_packet: small ones and the top of the range
SeqVals == (0 .. MaxSeq) \cup {U32Max - 1, U32Max}

\* (min_delay, max_delay) pairs a JitterBuffer is created with, min <= max
DelayParams == {<<DefaultMinDelay, DefaultMaxDelay>>,
                <<DefaultMinDelay, DefaultMinDelay>>,
                <<0, 1>>}

Min(a, b) == IF a < b THEN a ELSE b
Max(a, b) == IF a > b THEN a ELSE b

\* Option<Vec<u8>>
None == [some |-> FALSE, data |-> <<>>]
Some(d) == [some |-> TRUE, data |-> d]

\* VecDeque::insert(pos, x), pos counted from 0
InsertAt(s, p, x) == SubSeq(s, 1, p) \o <<x>> \o SubSeq(s, p + 1, Len(s))

---------------------------------------------------------------------------
(* JitterBuffer *)

\* JitterBuffer::new
JitterBuffer_new(min_delay, max_delay) ==
    [buffer |-> <<>>,
     min_delay |-> min_delay,
     max_delay |-> max_delay,
     current_delay |-> min_delay,
     last_sequence |-> 0]

\* a plausible slip: the packet is pushed at the front
InsertPosFront(buffer, sequence) == 0

\* a plausible slip: the packet is pushed at the back, whatever its sequence
InsertPosBack(buffer, sequence) == Len(buffer)

\* add_packet: buffer.iter().position(|(seq, _)| *seq > sequence).unwrap_or(buffer.len())
InsertPos(buffer, sequence) ==
    IF \E i \in 1 .. Len(buffer) : buffer[i].seq > sequence
    THEN (CHOOSE i \in 1 .. Len(buffer) :
              /\ buffer[i].seq > sequence
              /\ \A j \in 1 .. (i - 1) : ~(buffer[j].seq > sequence)) - 1
    ELSE Len(buffer)

\* adapt_delay: does one of its u32 operations overflow?
\*   self.current_delay + jitter   and   self.current_delay - 1
adapt_delay_overflows(b, sequence) ==
    /\ sequence > b.last_sequence
    /\ LET jitter == sequence - b.last_sequence - 1
       IN  IF jitter > 0
           THEN b.current_delay + jitter > U32Max
           ELSE b.current_delay - 1 < 0

\* a plausible slip: the gap is taken without the "- 1"
adapt_delay_no_minus_one(b, sequence) ==
    IF sequence > b.last_sequence
    THEN LET jitter == sequence - b.last_sequence
         IN  [b EXCEPT !.current_delay = Min((b.current_delay + jitter) % Modulus, b.max_delay)]
    ELSE b

\* adapt_delay, with wrapping arithmetic (what a release build computes; a
\* debug build computes the same unless adapt_delay_overflows)
adapt_delay(b, sequence) ==
    IF sequence > b.last_sequence
    THEN LET jitter == sequence - b.last_sequence - 1
         IN  IF jitter > 0
             THEN [b EXCEPT !.current_delay =
                       Min((b.current_delay + jitter) % Modulus, b.max_delay)]
             ELSE [b EXCEPT !.current_delay =
                       Max((b.current_delay - 1 + Modulus) % Modulus, b.min_delay)]
    ELSE b

\* add_packet up to and including self.buffer.insert(pos, (sequence, data))
insert_packet(b, sequence, data) ==
    [b EXCEPT !.buffer =
        InsertAt(b.buffer, InsertPos(b.buffer, sequence), [seq |-> sequence, data |-> data])]

\* add_packet
add_packet(b, sequence, data) ==
    adapt_delay(insert_packet(b, sequence, data), sequence)

\* a plausible slip: pop_back for pop_front
get_next_packet_back(b) ==
    IF Len(b.buffer) * FrameMs < b.current_delay \/ b.buffer = <<>>
    THEN [jb |-> b, ret |-> None]
    ELSE [jb |-> [b EXCEPT !.buffer = SubSeq(b.buffer, 1, Len(b.buffer) - 1),
                           !.last_sequence = b.buffer[Len(b.buffer)].seq],
          ret |-> Some(b.buffer[Len(b.buffer)].data)]

\* a plausible slip: the delay is compared with the number of buffered
\* packets, not with the milliseconds they stand for
get_next_packet_count(b) ==
    IF Len(b.buffer) < b.current_delay
    THEN [jb |-> b, ret |-> None]
    ELSE IF b.buffer = <<>>
         THEN [jb |-> b, ret |-> None]
         ELSE [jb |-> [b EXCEPT !.buffer = Tail(b.buffer),
                                !.last_sequence = Head(b.buffer).seq],
               ret |-> Some(Head(b.buffer).data)]

\* get_next_packet: the buffer after the call and the value returned
get_next_packet(b) ==
    IF Len(b.buffer) * FrameMs < b.current_delay
    THEN [jb |-> b, ret |-> None]
    ELSE IF b.buffer = <<>>
         THEN [jb |-> b, ret |-> None]        \* pop_front()? on an empty deque
         ELSE [jb |-> [b EXCEPT !.buffer = Tail(b.buffer),
                                !.last_sequence = Head(b.buffer).seq],
               ret |-> Some(Head(b.buffer).data)]

BufferSeqs(b) == [i \in 1 .. Len(b.buffer) |-> b.buffer[i].seq]

---------------------------------------------------------------------------
(* QualityMonitor *)

WindowCap == 100        \* latency_samples / jitter_samples keep at most 100

\* QualityMonitor::new, created at time t (last_packet_time: Instant::now())
QualityMonitor_new(t) ==
    [last_sequence |-> 0,
     packets_received |-> 0,
     packets_lost |-> 0,
     last_packet_time |-> t,
     latency_samples |-> <<>>,
     jitter_samples |-> <<>>]

\* a full window that refuses the new sample instead of evicting the oldest
PushCapped_keep_oldest(window, x) ==
    IF Len(window) + 1 > WindowCap THEN window ELSE Append(window, x)

\* push_back, then pop_front once the window holds more than 100
PushCapped(window, x) ==
    IF Len(window) + 1 > WindowCap THEN Tail(Append(window, x)) ELSE Append(window, x)

\* update: does one of its u32 operations overflow?
\*   sequence - self.last_sequence,  self.packets_lost += expected - 1,
\*   self.packets_received += 1
update_overflows(m, seq) ==
    \/ /\ m.last_sequence # 0
       /\ \/ seq < m.last_sequence
          \/ /\ seq - m.last_sequence > 1
             /\ m.packets_lost + (seq - m.last_sequence - 1) > U32Max
    \/ m.packets_received + 1 > U32Max

\* update counting the arriving sequence number itself as lost
update_gap_inclusive(m, seq, t) ==
    LET expected == (seq - m.last_sequence + Modulus) % Modulus
        lost == IF m.last_sequence # 0 /\ expected > 1
                THEN (m.packets_lost + expected) % Modulus
                ELSE m.packets_lost
        latency == t - m.last_packet_time
        lat == PushCapped(m.latency_samples, latency)
        idx == Max(Len(lat) - 2, 0)
        last_latency == lat[idx + 1]
        jitter == IF latency > last_latency
                  THEN latency - last_latency
                  ELSE last_latency - latency
    IN  [last_sequence |-> seq,
         packets_received |-> (m.packets_received + 1) % Modulus,
         packets_lost |-> lost,
         last_packet_time |-> t,
         latency_samples |-> lat,
         jitter_samples |-> PushCapped(m.jitter_samples, jitter)]

\* update, with wrapping arithmetic; t is received_time
update(m, seq, t) ==
    LET expected == (seq - m.last_sequence + Modulus) % Modulus
        lost == IF m.last_sequence # 0 /\ expected > 1
                THEN (m.packets_lost + expected - 1) % Modulus
                ELSE m.packets_lost
        latency == t - m.last_packet_time
        lat == PushCapped(m.latency_samples, latency)
        \* latency_samples.get(len.saturating_sub(2)): 0-based index
        idx == Max(Len(lat) - 2, 0)
        last_latency == lat[idx + 1]
        jitter == IF latency > last_latency
                  THEN latency - last_latency
                  ELSE last_latency - latency
    IN  [last_sequence |-> seq,
         packets_received |-> (m.packets_received + 1) % Modulus,
         packets_lost |-> lost,
         last_packet_time |-> t,
         latency_samples |-> lat,
         jitter_samples |-> PushCapped(m.jitter_samples, jitter)]

RECURSIVE SumSeq(_)
SumSeq(w) == IF w = <<>> THEN 0 ELSE Head(w) + SumSeq(Tail(w))

\* calculate_average_latency / calculate_average_jitter, in whole ms
calculate_average(w) == IF w = <<>> THEN 0 ELSE SumSeq(w) \div Len(w)

\* calculate_packet_loss: the f32 quotient, kept as numerator and denominator
\* (0.0 is 0/1); the u32 sum packets_received + packets_lost wraps
calculate_packet_loss(m) ==
    IF m.packets_received = 0
    THEN [num |-> 0, den |-> 1]
    ELSE [num |-> m.packets_lost, den |-> (m.packets_received + m.packets_lost) % Modulus]

\* packet_loss < pct / 100 (a quotient with denominator 0 is inf or NaN: not less)
LossBelow(loss, pct) == loss.den > 0 /\ loss.num * 100 < pct * loss.den

\* the if-chain with each boundary value kept in the better bucket
quality_of_inclusive(avg_latency, packet_loss) ==
    IF avg_latency <= 50 /\ LossBelow(packet_loss, 1) THEN "Excellent"
    ELSE IF avg_latency <= 100 /\ LossBelow(packet_loss, 2) THEN "Good"
    ELSE IF avg_latency <= 150 /\ LossBelow(packet_loss, 5) THEN "Fair"
    ELSE IF avg_latency <= 200 /\ LossBelow(packet_loss, 10) THEN "Poor"
    ELSE "Critical"

\* the if-chain of get_stats
quality_of(avg_latency, packet_loss) ==
    IF avg_latency < 50 /\ LossBelow(packet_loss, 1) THEN "Excellent"
    ELSE IF avg_latency < 100 /\ LossBelow(packet_loss, 2) THEN "Good"
    ELSE IF avg_latency < 150 /\ LossBelow(packet_loss, 5) THEN "Fair"
    ELSE IF avg_latency < 200 /\ LossBelow(packet_loss, 10) THEN "Poor"
    ELSE "Critical"

\* get_stats
get_stats(m) ==
    [latency |-> calculate_average(m.latency_samples),
     packet_loss |-> calculate_packet_loss(m),
     jitter |-> calculate_average(m.jitter_samples),
     connection_quality |->
         quality_of(calculate_average(m.latency_samples), calculate_packet_loss(m))]

---------------------------------------------------------------------------
(* Wire format *)

\* u32::to_be_bytes / BytesMut::put_u32
BE32(n) == <<(n \div 16777216) % 256, (n \div 65536) % 256, (n \div 256) % 256, n % 256>>

\* BytesMut::put_u64; the model's clock stays below 2^31
BE64(n) == <<0, 0, 0, 0>> \o BE32(n)

\* u32::from_be_bytes([buffer[0], buffer[1], buffer[2], buffer[3]])
FromBE32(b) == ((b[1] * 256 + b[2]) * 256 + b[3]) * 256 + b[4]

\* the packet the streaming task builds: put_u32, put_u64, put_slice
StreamPacket(seq, timestamp, audio_data) == BE32(seq) \o BE64(timestamp) \o audio_data

\* the packet send_audio builds: sequence.to_be_bytes(), then data
SendAudioPacket(seq, data) == BE32(seq) \o data

---------------------------------------------------------------------------
(* TURN client: process_turn_response *)

STUN_MAGIC_COOKIE == 554869826  \* 0x2112A442
XOR_MAPPED_ADDRESS == 22        \* 0x0016
StunHeaderLen == 20             \* if response.len() < 20; let mut offset = 20
ErrorClassBits == 272           \* message_type & 0x0110 == 0x0110
AllocateSuccess == 259          \* if message_type != 0x0103
ERROR_CODE == 9                 \* attr_type == 0x0009
FamilyIPv4 == 1                 \* if family == 0x01

\* the & and ^ of two unsigned integers
RECURSIVE BitAnd(_, _)
BitAnd(a, b) ==
    IF a = 0 \/ b = 0 THEN 0
    ELSE (a % 2) * (b % 2) + 2 * BitAnd(a \div 2, b \div 2)

RECURSIVE BitXor(_, _)
BitXor(a, b) ==
    IF a = 0 THEN b
    ELSE IF b = 0 THEN a
    ELSE ((a + b) % 2) + 2 * BitXor(a \div 2, b \div 2)

\* response[i], i counted from 0
At(response, i) == response[i + 1]

\* u16::from_be_bytes([response[i], response[i + 1]])
U16At(response, i) == At(response, i) * 256 + At(response, i + 1)

\* what process_turn_response returns: Ok(None), Ok(Some(addr)), or a panic
\* on an index past the end of the slice; logged is the error code it
\* prints (NoCode: none)
NoCode == -1
NoAddress == [kind |-> "none", ip |-> <<>>, port |-> 0, logged |-> NoCode]
SomeAddress(ip, port) == [kind |-> "addr", ip |-> ip, port |-> port, logged |-> NoCode]
IndexPanic == [kind |-> "panic", ip |-> <<>>, port |-> 0, logged |-> NoCode]

\* offset is pos:  pos += 4 + attr_len; if attr_len % 4 != 0 { pos += 4 - (attr_len % 4) }
NextAttr(offset, attr_len) ==
    offset + 4 + attr_len + (IF attr_len % 4 # 0 THEN 4 - (attr_len % 4) ELSE 0)

\* the error-response loop: the first ERROR-CODE attribute is printed
RECURSIVE ErrorScan(_, _)
ErrorScan(response, offset) ==
    IF offset + 4 <= Len(response)
    THEN LET attr_type == U16At(response, offset)
             attr_len == U16At(response, offset + 2)
         IN  IF attr_type = ERROR_CODE /\ offset + 8 <= Len(response)
             THEN [NoAddress EXCEPT
                      !.logged = At(response, offset + 6) * 100 + At(response, offset + 7)]
             ELSE ErrorScan(response, NextAttr(offset, attr_len))
    ELSE NoAddress

\* the address decoded with the cookie's bytes taken lowest first
DecodeAddress_low_first(response, offset) ==
    SomeAddress([i \in 1 .. 4 |->
                    BitXor(At(response, offset + 8 + (i - 1)),
                           (STUN_MAGIC_COOKIE \div (2 ^ ((i - 1) * 8))) % 256)],
                BitXor(U16At(response, offset + 6), STUN_MAGIC_COOKIE % 65536))

\* port = u16(response[pos+6..]) ^ (COOKIE >> 16) as u16,
\* addr[i] = response[pos + 8 + i] ^ (COOKIE >> (24 - i * 8)) as u8
DecodeAddress(response, offset) ==
    SomeAddress([i \in 1 .. 4 |->
                    BitXor(At(response, offset + 8 + (i - 1)),
                           (STUN_MAGIC_COOKIE \div (2 ^ (24 - (i - 1) * 8))) % 256)],
                BitXor(U16At(response, offset + 6), STUN_MAGIC_COOKIE \div 65536))

\* the success-response loop; response[pos + 5 ..] is read unchecked
RECURSIVE AddressScan(_, _)
AddressScan(response, offset) ==
    IF offset + 4 <= Len(response)
    THEN LET attr_type == U16At(response, offset)
             attr_len == U16At(response, offset + 2)
         IN  IF attr_type = XOR_MAPPED_ADDRESS
             THEN IF offset + 7 >= Len(response) THEN IndexPanic
                  ELSE IF At(response, offset + 5) = FamilyIPv4
                  THEN IF offset + 11 >= Len(response) THEN IndexPanic
                       ELSE DecodeAddress(response, offset)
                  ELSE AddressScan(response, NextAttr(offset, attr_len))
             ELSE AddressScan(response, NextAttr(offset, attr_len))
    ELSE NoAddress

process_turn_response(response) ==
    IF Len(response) < StunHeaderLen THEN NoAddress
    ELSE LET message_type == U16At(response, 0)
         IN  IF BitAnd(message_type, ErrorClassBits) = ErrorClassBits
             THEN ErrorScan(response, StunHeaderLen)
             ELSE IF message_type # AllocateSuccess THEN NoAddress
             ELSE AddressScan(response, StunHeaderLen)

\* the Err setup_turn_connection returns when no address was parsed:
\* a message, no code
FailedToGetRelayedAddress ==
    [text |-> "Failed to get relayed address from TURN server", code |-> NoCode]
NoError == [text |-> "", code |-> NoCode]

---------------------------------------------------------------------------
(* AudioNetwork: state *)

MaxPeerOps == 3         \* add_peer and remove_peer calls
MaxFrames == 2          \* frames handed to the send channel or to send_audio
MaxRecv == 2            \* datagrams the receive task reads
MaxWireSeq == 2         \* sequence numbers 0..MaxWireSeq in received datagrams
SendChanCap == 32       \* main.rs: mpsc::channel(32)
BroadcastCap == 100     \* AudioNetwork::new: broadcast::channel(100)
HeaderLen == 12         \* spec section 3: the 12-byte header
SenderTime == 5         \* the send_timestamp_ms in received datagrams
RecvStep == 10          \* ms the clock advances before a datagram arrives

Addrs == {"a1", "a2"}

\* Opus frames carried by received datagrams
RxPayloads == {<<7, 9>>}

Range(f) == {f[i] : i \in DOMAIN f}

\* HashMap::insert / HashMap::remove
MapInsert(m, k, v) == [x \in (DOMAIN m) \cup {k} |-> IF x = k THEN v ELSE m[x]]
MapRemove(m, k) == [x \in (DOMAIN m) \ {k} |-> m[x]]
EmptyMap == [x \in {} |-> 0]

\* Vec::retain(|x| x != addr)
RECURSIVE Retain(_, _)
Retain(v, addr) ==
    IF v = <<>> THEN <<>>
    ELSE IF Head(v) # addr THEN <<Head(v)>> \o Retain(Tail(v), addr)
    ELSE Retain(Tail(v), addr)

\* datagrams recv_from can return: packets of a peer running the streaming
\* task (any sequence), and datagrams shorter than the header
DatagramsIn ==
    {StreamPacket(s, SenderTime, p) : s \in 0 .. MaxWireSeq, p \in RxPayloads}
        \cup {SubSeq(StreamPacket(1, SenderTime, <<>>), 1, HeaderLen - 1),
              <<0, 0, 1>>}

NoDatagram == [addr |-> "none", dgram |-> <<>>]

\* no add_peer or remove_peer call was made yet
NoCall == [op |-> "none", addr |-> "none", registered |-> FALSE]

\* usize::next_power_of_two
RECURSIVE PowerOfTwoFrom(_, _)
PowerOfTwoFrom(p, n) == IF p >= n THEN p ELSE PowerOfTwoFrom(2 * p, n)
next_power_of_two(n) == PowerOfTwoFrom(1, n)

\* the values a broadcast channel created with broadcast::channel(100)
\* retains: the capacity asked for, or that capacity rounded up to a power
\* of two, as the tokio the binary is linked with allocates it
BroadcastSlots == {BroadcastCap, next_power_of_two(BroadcastCap)}

\* no handle_incoming call was made: neither task exists; slots is the
\* number of values the audio_tx channel retains
RxFresh(slots) ==
    [started |-> FALSE, panicked |-> FALSE,
     jitter_buffers |-> EmptyMap, quality_monitors |-> EmptyMap,
     decoder |-> [running |-> FALSE, next |-> 0, processed |-> 0, slots |-> slots]]

\* AudioNetwork::new, after the TURN allocation succeeded
NetFreshWith(slots) ==
    /\ now = 0
    /\ peers = <<>>
    /\ jitter_buffers = EmptyMap
    /\ quality_monitors = EmptyMap
    /\ sequence_counter = 0
    /\ send_chan = <<>>
    /\ stream = [started |-> FALSE, peers |-> <<>>]
    /\ rx = RxFresh(slots)
    /\ frames = <<>>
    /\ audio_pub = <<>>
    /\ stats_pub = <<>>
    /\ last_rx = NoDatagram
    /\ last_call = NoCall

NetFresh == NetFreshWith(BroadcastCap)

\* no AudioNetwork calls are made (JBSpec, DrainSpec)
NetIdle == NetFresh /\ counts = [peer_ops |-> MaxPeerOps, produced |-> MaxFrames, recv |-> MaxRecv]

---------------------------------------------------------------------------
(* The QualityMonitor under test and the TURN allocation: state *)

\* get_stats was not called yet
NoStats == [latency |-> 0, packet_loss |-> [num |-> 0, den |-> 1], jitter |-> 0,
            connection_quality |-> "none"]

\* a QualityMonitor just created, no update and no get_stats call made
MonFresh ==
    /\ qm = QualityMonitor_new(0)
    /\ updates = <<>>
    /\ qm_panicked = FALSE
    /\ stats = NoStats

\* a TURN response as the server builds it: header fields, attributes, and
\* the number of bytes missing at the end of the datagram
NoFixture == [message_type |-> 0, transaction_id |-> <<>>, attrs |-> <<>>, cut |-> 0]

\* no allocation request was sent yet
\* a TurnConfig: the bytes of its username, credential and realm strings
NoConfig == [username |-> <<>>, credential |-> <<>>, realm |-> <<>>]

\* before setup_turn_connection is called with the given TurnConfig
TurnWith(config) ==
    [phase |-> "new", config |-> config, transaction_id |-> <<>>,
     request |-> <<>>, hashed |-> <<>>, fixture |-> NoFixture,
     response |-> <<>>, result |-> NoAddress, outcome |-> "pending",
     error |-> NoError, network |-> FALSE]

TurnFresh == turn = TurnWith(NoConfig)

\* AppState::new: no AudioNetwork, no AudioProcessor, no channel, no task
NoSession ==
    [network |-> FALSE, processor |-> <<>>, capture |-> <<>>, chans |-> EmptyMap,
     send_tasks |-> <<>>, recv_tasks |-> 0, starts |-> 0, stopped |-> FALSE,
     offered |-> 0, handed |-> 0, last_datagram |-> <<>>]

SessionIdle == session = NoSession

\* neither is used (JBSpec, DrainSpec, SendSpec, RecvSpec)
UnitIdle == MonFresh /\ TurnFresh /\ SessionIdle

---------------------------------------------------------------------------
(* JBSpec: one JitterBuffer, any calls *)

DriverIdle == script = <<>> /\ pos = 1 /\ phase = "idle"

JBInit ==
    /\ build \in Builds
    /\ UnitIdle
    /\ \E p \in DelayParams : jb = JitterBuffer_new(p[1], p[2])
    /\ released = <<>>
    /\ adds = 0
    /\ last_added = 0
    /\ in_order = TRUE
    /\ panicked = FALSE
    /\ DriverIdle
    /\ NetIdle

\* the effect of one add_packet call on the buffer under test
CallAddPacket(sequence, data) ==
    /\ IF build = "debug" /\ adapt_delay_overflows(jb, sequence)
       THEN /\ jb' = insert_packet(jb, sequence, data)
            /\ panicked' = TRUE
       ELSE /\ jb' = add_packet(jb, sequence, data)
            /\ panicked' = FALSE
    /\ adds' = adds + 1
    /\ last_added' = sequence
    /\ in_order' = (in_order /\ (adds = 0 \/ sequence > last_added))
    /\ UNCHANGED released

\* the effect of one get_next_packet call; r is what it returns
CallGetNextPacket(r) ==
    /\ r = get_next_packet(jb).ret
    /\ jb' = get_next_packet(jb).jb
    /\ released' = IF r.some THEN Append(released, r.data) ELSE released
    /\ UNCHANGED <<adds, last_added, in_order, panicked>>

AddPacket ==
    /\ ~panicked
    /\ adds < MaxAdds
    /\ \E sequence \in SeqVals, data \in Payloads : CallAddPacket(sequence, data)
    /\ UNCHANGED <<build, unitVars, drvVars, netVars>>

GetNextPacket ==
    /\ ~panicked
    /\ \E r \in {None} \cup {Some(d) : d \in Payloads} : CallGetNextPacket(r)
    /\ UNCHANGED <<build, unitVars, drvVars, netVars>>

JBNext == AddPacket \/ GetNextPacket

JBSpec == JBInit /\ [][JBNext]_vars

---------------------------------------------------------------------------
(* DrainSpec: a fresh JitterBuffer(20, 50), a script of sequence numbers,  *)
(* get_next_packet after each add until it returns None                    *)

Scripts == UNION {[1 .. n -> 1 .. ScriptMaxSeq] : n \in 0 .. ScriptLen}

DrainInit ==
    /\ build \in Builds
    /\ UnitIdle
    /\ jb = JitterBuffer_new(DefaultMinDelay, DefaultMaxDelay)
    /\ released = <<>>
    /\ adds = 0
    /\ last_added = 0
    /\ in_order = TRUE
    /\ panicked = FALSE
    /\ script \in Scripts
    /\ pos = 1
    /\ phase = "add"
    /\ NetIdle

DrainAdd ==
    /\ phase = "add"
    /\ ~panicked
    /\ pos <= Len(script)
    /\ CallAddPacket(script[pos], PayloadOf(script[pos]))
    /\ phase' = "drain"
    /\ UNCHANGED <<build, unitVars, script, pos, netVars>>

DrainPop ==
    /\ phase = "drain"
    /\ ~panicked
    /\ \E r \in {None} \cup {Some(PayloadOf(s)) : s \in 1 .. ScriptMaxSeq} :
          /\ CallGetNextPacket(r)
          /\ IF r.some
             THEN UNCHANGED <<pos, phase>>
             ELSE pos' = pos + 1 /\ phase' = "add"
    /\ UNCHANGED <<build, unitVars, script, netVars>>

DrainDone == phase = "add" /\ pos = Len(script) + 1 /\ ~panicked

DrainNext == DrainAdd \/ DrainPop

DrainSpec == DrainInit /\ [][DrainNext]_vars

---------------------------------------------------------------------------
(* SendSpec and RecvSpec: one AudioNetwork *)

StreamSeq == 0          \* start_streaming: packet.put_u32(0)
MinPacketLen == 4       \* handle_incoming: if size < 4
PayloadOffset == 4      \* handle_incoming: &buffer[4..size]

\* the JitterBuffer under test is not used
JBIdle ==
    /\ jb = JitterBuffer_new(DefaultMinDelay, DefaultMaxDelay)
    /\ released = <<>>
    /\ adds = MaxAdds
    /\ last_added = 0
    /\ in_order = TRUE
    /\ panicked = FALSE

\* the send side starts: no frames sent, the receive task is never started
SendInit ==
    /\ build \in Builds
    /\ UnitIdle
    /\ JBIdle
    /\ DriverIdle
    /\ NetFresh
    /\ counts = [peer_ops |-> 0, produced |-> 0, recv |-> MaxRecv]

\* the receive side starts: no datagrams read, no frames are produced
RecvInit ==
    /\ build \in Builds
    /\ UnitIdle
    /\ JBIdle
    /\ DriverIdle
    /\ NetFresh
    /\ counts = [peer_ops |-> 0, produced |-> MaxFrames, recv |-> 0]

\* add_peer without the contains test
add_peer_unguarded(addr) ==
    /\ peers' = Append(peers, addr)
    /\ jitter_buffers' = MapInsert(jitter_buffers, addr,
                             JitterBuffer_new(DefaultMinDelay, DefaultMaxDelay))
    /\ quality_monitors' = MapInsert(quality_monitors, addr, QualityMonitor_new(now))

\* AudioNetwork::add_peer
add_peer(addr) ==
    IF addr \notin Range(peers)
    THEN /\ peers' = Append(peers, addr)
         /\ jitter_buffers' = MapInsert(jitter_buffers, addr,
                                  JitterBuffer_new(DefaultMinDelay, DefaultMaxDelay))
         /\ quality_monitors' = MapInsert(quality_monitors, addr, QualityMonitor_new(now))
    ELSE UNCHANGED <<peers, jitter_buffers, quality_monitors>>

\* AudioNetwork::remove_peer
remove_peer(addr) ==
    /\ peers' = Retain(peers, addr)
    /\ jitter_buffers' = MapRemove(jitter_buffers, addr)
    /\ UNCHANGED quality_monitors

\* a call of add_peer
AddPeer ==
    /\ counts.peer_ops < MaxPeerOps
    /\ \E addr \in Addrs :
          /\ add_peer(addr)
          /\ last_call' = [op |-> "add_peer", addr |-> addr,
                           registered |-> addr \in Range(peers)]
    /\ counts' = [counts EXCEPT !.peer_ops = @ + 1]
    /\ UNCHANGED <<build, unitVars, jbVars, drvVars, now, sequence_counter, send_chan, stream,
                   rx, frames, audio_pub, stats_pub, last_rx>>

\* a call of remove_peer
RemovePeer ==
    /\ counts.peer_ops < MaxPeerOps
    /\ \E addr \in Addrs :
          /\ remove_peer(addr)
          /\ last_call' = [op |-> "remove_peer", addr |-> addr,
                           registered |-> addr \in Range(peers)]
    /\ counts' = [counts EXCEPT !.peer_ops = @ + 1]
    /\ UNCHANGED <<build, unitVars, jbVars, drvVars, now, sequence_counter, send_chan, stream,
                   rx, frames, audio_pub, stats_pub, last_rx>>

\* the capture callback hands an encoded frame to the channel: tx.try_send
ProduceFrame ==
    /\ counts.produced < MaxFrames
    /\ \E data \in Payloads :
          send_chan' = IF Len(send_chan) < SendChanCap
                       THEN Append(send_chan, data)
                       ELSE send_chan
    /\ counts' = [counts EXCEPT !.produced = @ + 1]
    /\ UNCHANGED <<build, unitVars, jbVars, drvVars, last_call, now, peers, jitter_buffers, quality_monitors,
                   sequence_counter, stream, rx, frames, audio_pub, stats_pub, last_rx>>

\* AudioNetwork::start_streaming: clones the peer list and spawns the task
StartStreaming ==
    /\ ~stream.started
    /\ stream' = [started |-> TRUE, peers |-> peers]
    /\ UNCHANGED <<build, unitVars, jbVars, drvVars, last_call, now, peers, jitter_buffers, quality_monitors,
                   sequence_counter, send_chan, rx, frames, audio_pub, stats_pub, last_rx,
                   counts>>

\* the send_to calls of one frame that return Err: those to an address the
\* socket cannot send to at that moment
FailedSends(packets, unreachable) ==
    {i \in DOMAIN packets : packets[i].to \in unreachable}

\* the datagrams the streaming task sends for one frame: one per peer of its list
StreamPackets(task_peers, audio_data, t) ==
    [i \in 1 .. Len(task_peers) |->
        [to |-> task_peers[i], packet |-> StreamPacket(StreamSeq, t, audio_data)]]

\* one turn of the streaming task's loop: rx.recv(), then a send_to per peer
StreamSendFrame ==
    /\ stream.started
    /\ send_chan # <<>>
    /\ send_chan' = Tail(send_chan)
    /\ \E unreachable \in SUBSET Addrs :
          LET packets == StreamPackets(stream.peers, Head(send_chan), now)
          IN  \* if let Err(e) = socket.send_to(..) { eprintln!(..) }: the loop goes on
              frames' = Append(frames,
                           [path |-> "stream", data |-> Head(send_chan), registry |-> peers,
                            packets |-> packets,
                            failed |-> FailedSends(packets, unreachable),
                            result |-> "ok"])
    /\ UNCHANGED <<build, unitVars, jbVars, drvVars, last_call, now, peers, jitter_buffers, quality_monitors,
                   sequence_counter, stream, rx, audio_pub, stats_pub, last_rx, counts>>

\* the datagrams send_audio sends for one frame
SendAudioPackets(to_peers, seq, data) ==
    [i \in 1 .. Len(to_peers) |-> [to |-> to_peers[i], packet |-> SendAudioPacket(seq, data)]]

\* AudioNetwork::send_audio
SendAudio ==
    /\ counts.produced < MaxFrames
    /\ \E data \in Payloads, unreachable \in SUBSET Addrs :
          LET packets == SendAudioPackets(peers, sequence_counter, data)
              failed == FailedSends(packets, unreachable)
              \* send_to(..).await?: the first Err ends the loop and the call
              first == CHOOSE i \in failed : \A j \in failed : i <= j
          IN  frames' = Append(frames,
                           [path |-> "send_audio", data |-> data, registry |-> peers,
                            packets |-> IF failed = {} THEN packets
                                        ELSE SubSeq(packets, 1, first),
                            failed |-> IF failed = {} THEN {} ELSE {first},
                            result |-> IF failed = {} THEN "ok" ELSE "err"])
    /\ sequence_counter' = (sequence_counter + 1) % Modulus       \* fetch_add wraps
    /\ counts' = [counts EXCEPT !.produced = @ + 1]
    /\ UNCHANGED <<build, unitVars, jbVars, drvVars, last_call, now, peers, jitter_buffers, quality_monitors,
                   send_chan, stream, rx, audio_pub, stats_pub, last_rx>>

\* AudioNetwork::handle_incoming: clones both maps, subscribes to audio_tx
\* (the subscription sees the values sent from now on) and spawns the
\* receive task and the decoder task
HandleIncoming ==
    /\ ~rx.started
    /\ rx' = [started |-> TRUE, panicked |-> FALSE,
              jitter_buffers |-> jitter_buffers, quality_monitors |-> quality_monitors,
              decoder |-> [running |-> TRUE, next |-> Len(audio_pub), processed |-> 0,
                           slots |-> rx.decoder.slots]]
    /\ UNCHANGED <<build, unitVars, jbVars, drvVars, last_call, now, peers, jitter_buffers, quality_monitors,
                   sequence_counter, send_chan, stream, frames, audio_pub, stats_pub,
                   last_rx, counts>>

\* the receive task's handling of one datagram (the Ok((size, addr)) arm),
\* received at time t
HandleDatagram(addr, dgram, t) ==
    LET size == Len(dgram)
        seq == FromBE32(dgram)
        known == addr \in DOMAIN rx.quality_monitors
        monitor == update(rx.quality_monitors[addr], seq, t)
    IN  IF size < MinPacketLen
        THEN UNCHANGED <<rx, audio_pub, stats_pub>>
        ELSE IF known /\ build = "debug" /\ update_overflows(rx.quality_monitors[addr], seq)
        THEN /\ rx' = [rx EXCEPT !.panicked = TRUE]
             /\ UNCHANGED <<audio_pub, stats_pub>>
        ELSE /\ IF known
                THEN /\ rx' = [rx EXCEPT !.quality_monitors[addr] = monitor]
                     /\ stats_pub' = Append(stats_pub,
                                        [addr |-> addr, stats |-> get_stats(monitor)])
                ELSE UNCHANGED <<rx, stats_pub>>
             /\ audio_pub' = Append(audio_pub,
                                [data |-> SubSeq(dgram, PayloadOffset + 1, size),
                                 addr |-> addr])

\* one turn of the receive task's loop: socket.recv_from, then the handling
ReceiveDatagram ==
    /\ rx.started
    /\ ~rx.panicked
    /\ counts.recv < MaxRecv
    /\ \E addr \in Addrs, dgram \in DatagramsIn :
          /\ last_rx' = [addr |-> addr, dgram |-> dgram]
          /\ HandleDatagram(addr, dgram, now + RecvStep)
    /\ now' = now + RecvStep
    /\ counts' = [counts EXCEPT !.recv = @ + 1]
    /\ UNCHANGED <<build, unitVars, jbVars, drvVars, last_call, peers, jitter_buffers, quality_monitors,
                   sequence_counter, send_chan, stream, frames>>

\* the decoder task at while let Ok((audio_data, _addr)) = audio_rx.recv().await:
\* the next value is processed; when the channel has overwritten it, recv
\* returns Err(Lagged) and the while let ends the task; with nothing new
\* the task stays suspended
DecoderRecv ==
    /\ rx.started
    /\ rx.decoder.running
    /\ LET behind == Len(audio_pub) - rx.decoder.next
       IN  IF behind > rx.decoder.slots
           THEN rx' = [rx EXCEPT !.decoder.running = FALSE,
                                 !.decoder.next = Len(audio_pub) - rx.decoder.slots]
           ELSE /\ behind > 0
                /\ rx' = [rx EXCEPT !.decoder.next = @ + 1,
                                    !.decoder.processed = @ + 1]
    /\ UNCHANGED <<build, unitVars, jbVars, drvVars, last_call, now, peers, jitter_buffers,
                   quality_monitors, sequence_counter, send_chan, stream, frames, audio_pub,
                   stats_pub, last_rx, counts>>

\* SendSpec: the registry and the two send paths
SendNext ==
    \/ AddPeer
    \/ RemovePeer
    \/ ProduceFrame
    \/ StartStreaming
    \/ StreamSendFrame
    \/ SendAudio

SendSpec == SendInit /\ [][SendNext]_vars

\* RecvSpec: the registry and the receive path
RecvNext ==
    \/ AddPeer
    \/ RemovePeer
    \/ HandleIncoming
    \/ ReceiveDatagram

RecvSpec == RecvInit /\ [][RecvNext]_vars

\* LagSpec: a steady stream of datagrams from one address and the decoder
\* task reading the decoded-frame broadcast at its own pace
LagExtra == 2           \* datagrams beyond the largest number the channel retains

LagPeer == "a1"

LagInit ==
    /\ build \in Builds
    /\ UnitIdle
    /\ JBIdle
    /\ DriverIdle
    /\ \E slots \in BroadcastSlots : NetFreshWith(slots)
    /\ counts = [peer_ops |-> MaxPeerOps, produced |-> MaxFrames, recv |-> 0]

\* one turn of the receive task's loop on the next datagram of the stream
StreamDatagram ==
    /\ rx.started
    /\ ~rx.panicked
    /\ counts.recv < next_power_of_two(BroadcastCap) + LagExtra
    /\ LET dgram == StreamPacket(counts.recv, SenderTime, <<7, 9>>)
       IN  /\ last_rx' = [addr |-> LagPeer, dgram |-> dgram]
           /\ HandleDatagram(LagPeer, dgram, now + RecvStep)
    /\ now' = now + RecvStep
    /\ counts' = [counts EXCEPT !.recv = @ + 1]
    /\ UNCHANGED <<build, unitVars, jbVars, drvVars, last_call, peers, jitter_buffers, quality_monitors,
                   sequence_counter, send_chan, stream, frames>>

LagNext ==
    \/ HandleIncoming
    \/ StreamDatagram
    \/ DecoderRecv

LagSpec == LagInit /\ [][LagNext]_vars

---------------------------------------------------------------------------
(* MonSpec, WindowSpec, StatsSpec: one QualityMonitor *)

MonLen == 5             \* update calls in MonSpec
MonStep == 10           \* ms between two arrivals in MonSpec
WinExtra == 2           \* update calls WindowSpec makes beyond the window's 100
WinStrides == 2         \* WindowSpec: the sender's sequence numbers advance by 1..WinStrides
WinPeriod == 3          \* WindowSpec: arrival spacings repeat with this period

\* sequence numbers passed to update in MonSpec: 0, the numbers of scenario
\* S3 of spec section 8, and the top of the range
MonSeqVals == {0, 1, 2, 5, 6, 7, U32Max}

\* no JitterBuffer, no AudioNetwork and no TURN allocation are used
OnlyMonitor == JBIdle /\ DriverIdle /\ NetIdle /\ TurnFresh /\ SessionIdle

MonInit ==
    /\ build \in Builds
    /\ OnlyMonitor
    /\ MonFresh

\* one pass of the receive loop over the monitor: monitor.update(sequence, t),
\* then monitor.get_stats()
CallUpdate(sequence, t) ==
    /\ IF build = "debug" /\ update_overflows(qm, sequence)
       THEN /\ qm_panicked' = TRUE
            /\ UNCHANGED <<qm, stats>>
       ELSE /\ qm' = update(qm, sequence, t)
            /\ stats' = get_stats(update(qm, sequence, t))
            /\ qm_panicked' = FALSE
    /\ updates' = Append(updates, sequence)

\* MonSpec: any sequence numbers, MonStep ms apart
MonUpdate ==
    /\ ~qm_panicked
    /\ Len(updates) < MonLen
    /\ \E sequence \in MonSeqVals : CallUpdate(sequence, qm.last_packet_time + MonStep)
    /\ UNCHANGED <<build, jbVars, drvVars, netVars, turn, session>>

MonNext == MonUpdate

MonSpec == MonInit /\ [][MonNext]_vars

\* WindowSpec: more than 100 arrivals of a steady stream; the first call
\* picks the stride of the sequence numbers, the spacing of arrival k is
\* MonStep * (1 + k mod WinPeriod)
WinDelay(k) == MonStep * (1 + (k % WinPeriod))

WinUpdate ==
    /\ ~qm_panicked
    /\ Len(updates) < WindowCap + WinExtra
    /\ \E sequence \in (IF updates = <<>> THEN 1 .. WinStrides
                        ELSE {qm.last_sequence + updates[1]}) :
          CallUpdate(sequence, qm.last_packet_time + WinDelay(Len(updates)))
    /\ UNCHANGED <<build, jbVars, drvVars, netVars, turn, session>>

WinNext == WinUpdate

WindowSpec == MonInit /\ [][WinNext]_vars

\* StatsSpec: a run of `received` arrivals, all `latency` ms apart, the last
\* of them after a gap of `lost` sequence numbers; get_stats after each
StatsLatencies == {0, 30, 49, 50, 99, 100, 120, 149, 150, 199, 200, 250}

\* <<received, lost>>: 0 %, 0.5 %, and each loss threshold with its neighbour below
StatsCounts == {<<1, 0>>, <<199, 1>>, <<100, 1>>, <<99, 1>>, <<50, 1>>, <<49, 1>>,
                <<97, 3>>, <<20, 1>>, <<19, 1>>, <<10, 1>>, <<9, 1>>, <<2, 1>>}

\* the sequence numbers of such a run
ArrivalsOf(received, lost) == [i \in 1 .. received |-> IF i < received THEN i ELSE i + lost]

StatsInit ==
    /\ build \in Builds
    /\ JBIdle
    /\ NetIdle
    /\ TurnFresh
    /\ SessionIdle
    /\ MonFresh
    /\ \E c \in StatsCounts : script = ArrivalsOf(c[1], c[2])
    /\ pos = 1
    /\ phase = "feed"

\* the next arrival of the run; the first one fixes the spacing
StatsUpdate ==
    /\ phase = "feed"
    /\ ~qm_panicked
    /\ pos <= Len(script)
    /\ \E latency \in (IF updates = <<>> THEN StatsLatencies ELSE {qm.latency_samples[1]}) :
          CallUpdate(script[pos], qm.last_packet_time + latency)
    /\ pos' = pos + 1
    /\ UNCHANGED <<build, jbVars, netVars, turn, session, script, phase>>

StatsNext == StatsUpdate

StatsSpec == StatsInit /\ [][StatsNext]_vars

---------------------------------------------------------------------------
(* TurnSpec: AudioNetwork::new, one allocation exchange *)

MaxAttrs == 2           \* attributes in a TURN response
MaxCut == 5             \* bytes a response datagram may lack at its end

\* rand::random(): two transaction ids stand for all
TransactionIds == {[i \in 1 .. 12 |-> 1], [i \in 1 .. 12 |-> i]}

\* message types of responses: Allocate success 0x0103, Allocate error
\* 0x0111, Binding success 0x0101, Refresh error 0x0114, the request's 0x0003
ResponseTypes == {259, 273, 257, 276, 3}

BE16(n) == <<(n \div 256) % 256, n % 256>>

\* attributes as the server means them
RelayedAttr(family, ip, port) ==
    [kind |-> "XOR-RELAYED-ADDRESS", family |-> family, ip |-> ip, port |-> port,
     class |-> 0, number |-> 0]
ErrorAttr(class, number) ==
    [kind |-> "ERROR-CODE", family |-> 0, ip |-> <<>>, port |-> 0,
     class |-> class, number |-> number]
LifetimeAttr ==
    [kind |-> "LIFETIME", family |-> 0, ip |-> <<>>, port |-> 0, class |-> 0, number |-> 0]
SoftwareAttr ==
    [kind |-> "SOFTWARE", family |-> 0, ip |-> <<>>, port |-> 0, class |-> 0, number |-> 0]

ResponseAttrs ==
    {RelayedAttr(1, <<192, 168, 1, 2>>, 3478), RelayedAttr(1, <<33, 18, 255, 0>>, 65535),
     RelayedAttr(2, [i \in 1 .. 16 |-> i], 3478)}
        \cup {ErrorAttr(4, 1), ErrorAttr(4, 37), LifetimeAttr, SoftwareAttr}

\* the bytes of an attribute (RFC 5389 section 15, RFC 5766 section 14):
\* type, length, value, padding to a multiple of 4; an address is XORed
\* with the magic cookie 21 12 A4 42 (and, beyond 4 bytes, the transaction id)
AttrBytes(a, transaction_id) ==
    CASE a.kind = "XOR-RELAYED-ADDRESS" ->
            BE16(22) \o BE16(4 + Len(a.ip)) \o <<0, a.family>> \o BE16(BitXor(a.port, 8466))
                \o [i \in 1 .. Len(a.ip) |->
                       BitXor(a.ip[i], (<<33, 18, 164, 66>> \o transaction_id)[i])]
      [] a.kind = "ERROR-CODE" -> BE16(9) \o BE16(4) \o <<0, 0, a.class, a.number>>
      [] a.kind = "LIFETIME" -> BE16(13) \o BE16(4) \o <<0, 0, 2, 88>>
      [] a.kind = "SOFTWARE" -> BE16(32802) \o BE16(3) \o <<97, 98, 99, 0>>

RECURSIVE AttrsBytes(_, _)
AttrsBytes(attrs, transaction_id) ==
    IF attrs = <<>> THEN <<>>
    ELSE AttrBytes(Head(attrs), transaction_id) \o AttrsBytes(Tail(attrs), transaction_id)

\* the datagram of a response: the 20-byte header, the attributes, less
\* the bytes cut off
ResponseBytes(f) ==
    LET body == AttrsBytes(f.attrs, f.transaction_id)
        full == BE16(f.message_type) \o BE16(Len(body)) \o <<33, 18, 164, 66>>
                    \o f.transaction_id \o body
    IN  SubSeq(full, 1, Max(Len(full) - f.cut, 0))

Responses ==
    [message_type : ResponseTypes,
     transaction_id : TransactionIds,
     attrs : UNION {[1 .. n -> ResponseAttrs] : n \in 0 .. MaxAttrs},
     cut : 0 .. MaxCut]

ALLOCATION_REQUEST == 3         \* 0x0003
REALM_ATTR == 20                \* 0x0014
MaxNameLen == 4                 \* bytes in a username or a realm of AllocSpec

\* a string of n bytes, all c
Str(n, c) == [i \in 1 .. n |-> c]

\* TurnConfig::from_env: usernames "", "u", .., realms "", "r", ..,
\* credentials "p" and "pw"
TurnConfigs ==
    [username : {Str(n, 117) : n \in 0 .. MaxNameLen},
     credential : {<<112>>, <<112, 119>>},
     realm : {Str(n, 114) : n \in 0 .. MaxNameLen}]

\* the TurnConfig of TurnSpec: "user", "pw", "llas"
EnvConfig ==
    [username |-> <<117, 115, 101, 114>>, credential |-> <<112, 119>>,
     realm |-> <<108, 108, 97, 115>>]

\* while data.len() % 4 != 0 { data.push(0) }
RECURSIVE pad_to_multiple_of_4(_)
pad_to_multiple_of_4(data) ==
    IF Len(data) % 4 # 0 THEN pad_to_multiple_of_4(Append(data, 0)) ELSE data

\* username ":" realm ":" credential
hmac_key(username, credential, realm) == username \o <<58>> \o realm \o <<58>> \o credential

\* HMAC-SHA1 is not computed: a 20-byte value that depends on every byte of
\* the key and of the message and on their positions stands for it
hmac_sha1(key, message) ==
    LET input == key \o <<0>> \o message
    IN  [i \in 1 .. 20 |-> SumSeq([j \in 1 .. Len(input) |-> (i + j) * (input[j] + 1)]) % 256]

\* the request when hmac_sha1 is called: header with message length 0,
\* REQUESTED-TRANSPORT (0x0019, UDP = 17), REALM, USERNAME (0x0006)
RequestBeforeIntegrity(config, transaction_id) ==
    LET header == BE16(ALLOCATION_REQUEST) \o BE16(0) \o BE32(STUN_MAGIC_COOKIE)
                      \o transaction_id
        transport == header \o BE16(25) \o BE16(4) \o <<17>> \o <<0, 0, 0>>
        realm == pad_to_multiple_of_4(
                     transport \o BE16(REALM_ATTR) \o BE16(Len(config.realm)) \o config.realm)
    IN  pad_to_multiple_of_4(
            realm \o BE16(6) \o BE16(Len(config.username)) \o config.username)

\* the request as sent, and the bytes that were given to hmac_sha1:
\* MESSAGE-INTEGRITY (0x0008, 20 bytes) is appended, then the message
\* length is written into bytes 2..4
AllocateRequest(config, transaction_id) ==
    LET request == RequestBeforeIntegrity(config, transaction_id)
        key == hmac_key(config.username, config.credential, config.realm)
        hmac == hmac_sha1(key, request)
        full == request \o BE16(8) \o BE16(20) \o hmac
        message_length == (Len(full) - 20) % 65536
    IN  [bytes |-> SubSeq(full, 1, 2) \o BE16(message_length) \o SubSeq(full, 5, Len(full)),
         hashed |-> request]

TurnInit ==
    /\ build \in Builds
    /\ JBIdle
    /\ DriverIdle
    /\ NetIdle
    /\ MonFresh
    /\ turn = TurnWith(EnvConfig)
    /\ SessionIdle

\* setup_turn_connection up to local_socket.send(&request): the request
\* carries 12 random transaction-id bytes
SendAllocate ==
    /\ turn.phase = "new"
    /\ \E transaction_id \in TransactionIds :
          LET sent == AllocateRequest(turn.config, transaction_id)
          IN  turn' = [turn EXCEPT !.phase = "sent",
                                   !.transaction_id = transaction_id,
                                   !.request = sent.bytes,
                                   !.hashed = sent.hashed]
    /\ UNCHANGED <<build, jbVars, drvVars, netVars, monVars, session>>

\* setup_turn_connection from local_socket.recv on, and the rest of
\* AudioNetwork::new: Ok(local_socket) and the AudioNetwork when an address
\* was parsed, the Err otherwise; a panic unwinds the caller
ReceiveResponse ==
    /\ turn.phase = "sent"
    /\ \E f \in Responses :
          LET result == process_turn_response(ResponseBytes(f))
          IN  turn' = [turn EXCEPT
                          !.phase = "done",
                          !.fixture = f,
                          !.response = ResponseBytes(f),
                          !.result = result,
                          !.outcome = CASE result.kind = "addr" -> "ok"
                                        [] result.kind = "none" -> "err"
                                        [] result.kind = "panic" -> "panic",
                          !.error = IF result.kind = "none"
                                    THEN FailedToGetRelayedAddress ELSE NoError,
                          !.network = (result.kind = "addr")]
    /\ UNCHANGED <<build, jbVars, drvVars, netVars, monVars, session>>

TurnNext == SendAllocate \/ ReceiveResponse

TurnSpec == TurnInit /\ [][TurnNext]_vars

\* AllocSpec: the Allocate request of setup_turn_connection, for any TurnConfig
AllocInit ==
    /\ build \in Builds
    /\ JBIdle
    /\ DriverIdle
    /\ NetIdle
    /\ MonFresh
    /\ \E config \in TurnConfigs : turn = TurnWith(config)
    /\ SessionIdle

AllocNext == SendAllocate

AllocSpec == AllocInit /\ [][AllocNext]_vars

---------------------------------------------------------------------------
(* SessionSpec: the start_streaming and stop_streaming commands of main.rs, *)
(* the capture callback and the tasks a session spawns                      *)

MaxStarts == 2          \* start_streaming commands

\* the channels the n-th start_streaming creates: (tx, rx) and (audio_tx, _)
TxChan(n) == <<"tx", n>>
AudioChan(n) == <<"audio_tx", n>>

\* mpsc::channel(32): one Sender, the Receiver kept or dropped, nothing queued
NewChan(receiver) == [senders |-> 1, receiver |-> receiver, queue |-> <<>>]

\* a Sender of channel c is cloned or dropped (c = <<>>: there is none)
CloneSender(chans, c) == IF c = <<>> THEN chans ELSE [chans EXCEPT ![c].senders = @ + 1]
DropSender(chans, c) == IF c = <<>> THEN chans ELSE [chans EXCEPT ![c].senders = @ - 1]
DropReceiver(chans, c) == [chans EXCEPT ![c].receiver = FALSE]

SessionInit ==
    /\ build \in Builds
    /\ JBIdle
    /\ DriverIdle
    /\ NetIdle
    /\ MonFresh
    /\ TurnFresh
    /\ SessionIdle

\* the start_streaming command; outcome: Ok, or the Err of setup_processor
\* (no audio device), or the Err of init_network (no TURN allocation)
CmdStartStreaming ==
    /\ session.starts < MaxStarts
    /\ \E outcome \in {"ok", "no_device"}
                        \cup (IF session.network THEN {} ELSE {"no_network"}) :
          LET n == session.starts + 1
              \* let (tx, rx) = mpsc::channel(32)
              c1 == MapInsert(session.chans, TxChan(n), NewChan(TRUE))
              \* if processor.is_none(): let (audio_tx, _) = mpsc::channel(32),
              \* AudioProcessor::new(audio_tx)
              made == session.processor = <<>>
              c2 == IF made THEN MapInsert(c1, AudioChan(n), NewChan(FALSE)) ELSE c1
              p1 == IF made THEN AudioChan(n) ELSE session.processor
              \* setup_processor(&state.audio_processor, tx): tx goes into a new
              \* AudioProcessor if there is none, and is dropped otherwise
              took == p1 = <<>>
              processor == IF took THEN TxChan(n) ELSE p1
              c3 == IF took THEN c2 ELSE DropSender(c2, TxChan(n))
              \* start_capture: the callback owns self.tx.clone(); the new
              \* stream replaces the one before
              c4 == DropSender(CloneSender(c3, processor), session.capture)
          IN  CASE outcome = "no_device" ->
                       \* the Err return drops rx
                       session' = [session EXCEPT
                                      !.starts = n,
                                      !.processor = processor,
                                      !.chans = DropReceiver(c3, TxChan(n))]
                [] outcome = "no_network" ->
                       session' = [session EXCEPT
                                      !.starts = n,
                                      !.processor = processor,
                                      !.capture = processor,
                                      !.chans = DropReceiver(c4, TxChan(n))]
                [] outcome = "ok" ->
                       \* net.start_streaming(rx), processor.clone(),
                       \* net.handle_incoming(network_processor)
                       session' = [session EXCEPT
                                      !.starts = n,
                                      !.network = TRUE,
                                      !.processor = processor,
                                      !.capture = processor,
                                      !.chans = CloneSender(c4, processor),
                                      !.send_tasks =
                                          Append(@, [chan |-> TxChan(n), state |-> "running",
                                                     taken |-> 0]),
                                      !.recv_tasks = @ + 1,
                                      !.stopped = FALSE]
    /\ UNCHANGED <<build, jbVars, drvVars, netVars, monVars, turn>>

\* the stop_streaming command: *network = None; *processor = None. The
\* AudioProcessor is dropped with its tx and its input stream, whose callback
\* owns a clone of tx; the tasks keep their clones of the socket and of
\* the broadcast senders
CmdStopStreaming ==
    /\ session.network \/ session.processor # <<>>
    /\ session' = [session EXCEPT
                      !.network = FALSE,
                      !.processor = <<>>,
                      !.capture = <<>>,
                      !.chans = DropSender(DropSender(@, session.processor), session.capture),
                      !.stopped = (@ \/ session.network)]
    /\ UNCHANGED <<build, jbVars, drvVars, netVars, monVars, turn>>

\* the capture callback: let _ = tx.try_send(frame): Err(Closed) when the
\* Receiver is gone, Err(Full) when 32 frames are queued
CaptureCallback ==
    /\ session.capture # <<>>
    /\ session.offered < MaxFrames
    /\ \E data \in Payloads :
          LET c == session.chans[session.capture]
              accepted == c.receiver /\ Len(c.queue) < SendChanCap
          IN  session' = [session EXCEPT
                             !.offered = @ + 1,
                             !.handed = IF accepted THEN @ + 1 ELSE @,
                             !.chans = IF accepted
                                       THEN [@ EXCEPT ![session.capture].queue = Append(@, data)]
                                       ELSE @]
    /\ UNCHANGED <<build, jbVars, drvVars, netVars, monVars, turn>>

\* a send task at while let Some(audio_data) = rx.recv().await: a queued
\* frame is taken; with nothing queued and every Sender dropped recv()
\* returns None and the task ends; otherwise the task stays suspended
SendTaskRecv ==
    /\ \E i \in DOMAIN session.send_tasks :
          LET task == session.send_tasks[i]
              c == session.chans[task.chan]
          IN  /\ task.state = "running"
              /\ IF c.queue # <<>>
                 THEN session' = [session EXCEPT
                                     !.chans[task.chan].queue = Tail(@),
                                     !.send_tasks[i].taken = @ + 1]
                 ELSE /\ c.senders = 0
                      /\ session' = [session EXCEPT
                                        !.chans = DropReceiver(@, task.chan),
                                        !.send_tasks[i].state = "ended"]
    /\ UNCHANGED <<build, jbVars, drvVars, netVars, monVars, turn>>

\* a receive task at socket.recv_from: a datagram arrives and is handled,
\* then the loop goes round; the loop has no break. In a debug build
\* monitor.update can panic on overflow, which ends the task
RecvTaskDatagram ==
    /\ session.recv_tasks > 0
    /\ \E data \in Payloads, panics \in (IF build = "debug" THEN BOOLEAN ELSE {FALSE}) :
          session' = [session EXCEPT
                         !.last_datagram = data,
                         !.recv_tasks = IF panics THEN @ - 1 ELSE @]
    /\ UNCHANGED <<build, jbVars, drvVars, netVars, monVars, turn>>

SessionNext ==
    \/ CmdStartStreaming
    \/ CmdStopStreaming
    \/ CaptureCallback
    \/ SendTaskRecv
    \/ RecvTaskDatagram

\* the tokio runtime runs a task that can take a step
SessionSpec ==
    /\ SessionInit
    /\ [][SessionNext]_vars
    /\ WF_vars(SendTaskRecv)
    /\ WF_vars(RecvTaskDatagram)

---------------------------------------------------------------------------
(* Claims about the send path, under SendSpec *)

\* the frames the streaming task took from the send channel, in order
StreamFrames == SelectSeq(frames, LAMBDA f : f.path = "stream")

\* the sequence number a datagram carries in its first four bytes
SeqOf(packet) == FromBE32(packet)

\* C2 (as claimed): every frame the streaming task takes from the send
\* channel is stamped with a sequence number one greater than the previous
\* frame's, all peers get the same sequence number for the same frame, and
\* no two frames carry the same sequence number.
C2_StreamSequenceIncrements ==
    \A i \in 1 .. Len(StreamFrames), j \in 1 .. Len(StreamFrames) :
        \A k \in DOMAIN StreamFrames[i].packets, l \in DOMAIN StreamFrames[j].packets :
            i <= j =>
                SeqOf(StreamFrames[j].packets[l].packet) =
                    (SeqOf(StreamFrames[i].packets[k].packet) + (j - i)) % Modulus

\* C4 (as claimed): for each frame the streaming task sends exactly one
\* datagram to each peer that is in the registry when the frame is sent,
\* and none to any other address.
C4_OneDatagramPerRegisteredPeer ==
    \A i \in 1 .. Len(StreamFrames) :
        \A a \in Addrs :
            Cardinality({k \in DOMAIN StreamFrames[i].packets :
                             StreamFrames[i].packets[k].to = a})
                = IF a \in Range(StreamFrames[i].registry) THEN 1 ELSE 0

---------------------------------------------------------------------------
(* Claims about the receive path, under RecvSpec *)

\* this step is one turn of the receive loop
ReceivedOne == counts'.recv = counts.recv + 1

\* this step left every jitter buffer and quality monitor as it was and
\* published nothing
NothingHandled ==
    /\ audio_pub' = audio_pub
    /\ stats_pub' = stats_pub
    /\ rx' = rx
    /\ jitter_buffers' = jitter_buffers
    /\ quality_monitors' = quality_monitors

\* C3 (as claimed): for a datagram the send path built from (sequence,
\* timestamp, payload), the receive path parses that sequence and publishes
\* to the decoder exactly the payload, without the 12 header bytes.
C3_HeaderRoundTrip ==
    [][\A s \in 0 .. MaxWireSeq, p \in RxPayloads :
          (/\ ReceivedOne
           /\ last_rx'.dgram = StreamPacket(s, SenderTime, p)
           /\ ~rx'.panicked)
          => /\ Len(audio_pub') = Len(audio_pub) + 1
             /\ audio_pub'[Len(audio_pub')].data = p
             /\ last_rx'.addr \in DOMAIN rx.quality_monitors
                    => rx'.quality_monitors[last_rx'.addr].last_sequence = s]_vars

\* C5 (as claimed): a datagram from a source address that is not in the
\* peer registry publishes nothing on either broadcast and changes no
\* jitter buffer or quality monitor.
C5_UnregisteredDropped ==
    [][(ReceivedOne /\ last_rx'.addr \notin Range(peers)) => NothingHandled]_vars

\* C6 (as claimed): a datagram shorter than 12 bytes is dropped with no
\* state change.
C6_ShortDatagramDropped ==
    [][(ReceivedOne /\ Len(last_rx'.dgram) < HeaderLen) => NothingHandled]_vars

---------------------------------------------------------------------------
(* Claims about the JitterBuffer *)

\* C1 (as claimed): for a JitterBuffer created with min_delay <= max_delay,
\* after any add_packet and get_next_packet calls with any sequence numbers,
\* min_delay <= current_delay <= max_delay.
C1_DelayWithinBounds ==
    /\ jb.min_delay <= jb.current_delay
    /\ jb.current_delay <= jb.max_delay

\* C7 (as claimed): the sequence numbers held in the buffer are strictly
\* increasing from front to back, also after adding a sequence number that
\* is already present.
C7_BufferStrictlyIncreasing ==
    \A i \in 1 .. (Len(jb.buffer) - 1) : jb.buffer[i].seq < jb.buffer[i + 1].seq

\* C7 (amended): the sequence numbers held in the buffer are non-decreasing
\* from front to back; equal neighbours are exactly the duplicates, which
\* add_packet inserts as given.
C7_BufferNonDecreasing ==
    \A i \in 1 .. (Len(jb.buffer) - 1) : jb.buffer[i].seq <= jb.buffer[i + 1].seq

\* C7 witness: after adds and a release the buffer holds the same sequence
\* number twice.
C7_Witness ==
    /\ Len(released) >= 1
    /\ Len(jb.buffer) >= 2
    /\ \E i \in 1 .. (Len(jb.buffer) - 1) : jb.buffer[i].seq = jb.buffer[i + 1].seq

\* C8: while packets are added in increasing sequence order, no step (an
\* add_packet or a get_next_packet) decreases last_sequence.
C8_LastSequenceMonotone ==
    [][in_order' => jb'.last_sequence >= jb.last_sequence]_vars

\* C8 witness: in-order adds, two releases, last_sequence has advanced.
C8_Witness ==
    /\ in_order
    /\ adds >= 3
    /\ Len(released) >= 2
    /\ jb.last_sequence > 1

---------------------------------------------------------------------------
(* Scenarios S1 and S2 of spec section 8, under DrainSpec *)

S1Script == <<1, 2, 3, 4, 5>>
S2Script == <<1, 2, 4, 3, 5>>

PayloadsOf(seqs) == [i \in 1 .. Len(seqs) |-> PayloadOf(seqs[i])]

\* C9 (as claimed): S1 releases exactly five payloads in the order 1..5 and
\* leaves current_delay = 20.
C9_S1AsClaimed ==
    (script = S1Script /\ DrainDone) =>
        /\ released = PayloadsOf(<<1, 2, 3, 4, 5>>)
        /\ jb.current_delay = 20

\* C9 (amended): S1 releases exactly three payloads, in the order 1, 2, 3;
\* 4 and 5 stay buffered and current_delay is left at 27.
C9_S1Actual ==
    (script = S1Script /\ DrainDone) =>
        /\ released = PayloadsOf(<<1, 2, 3>>)
        /\ BufferSeqs(jb) = <<4, 5>>
        /\ jb.current_delay = 27
        /\ jb.last_sequence = 3

\* C9 witness: scenario S1 has run to its end.
C9_Witness == script = S1Script /\ DrainDone /\ adds = 5

\* C10 (as claimed): S2 releases all five payloads, in ascending order 1..5.
C10_S2AsClaimed ==
    (script = S2Script /\ DrainDone) =>
        released = PayloadsOf(<<1, 2, 3, 4, 5>>)

\* C10 (amended): S2 releases payloads in ascending order, and at its end
\* has released 1, 2, 3 while 4 and 5 stay buffered.
C10_S2Actual ==
    /\ script = S2Script =>
          \A i \in 1 .. (Len(released) - 1) : released[i][1] < released[i + 1][1]
    /\ (script = S2Script /\ DrainDone) =>
          /\ released = PayloadsOf(<<1, 2, 3>>)
          /\ BufferSeqs(jb) = <<4, 5>>

\* C10 witness: scenario S2 has run to its end, the late packet 3 included.
C10_Witness == script = S2Script /\ DrainDone /\ adds = 5 /\ ~in_order

---------------------------------------------------------------------------
(* Claims about the QualityMonitor *)

\* scenario S3 of spec section 8
S3Updates == <<1, 2, 5, 6, 7>>

\* C11 (MonSpec): after update was called on a fresh monitor with 1, 2, 5,
\* 6, 7 in that order, packets_received is 5, packets_lost is 2, the loss
\* fraction is 2/7 and get_stats reports Critical.
C11_S3Counts ==
    updates = S3Updates =>
        /\ ~qm_panicked
        /\ qm.packets_received = 5
        /\ qm.packets_lost = 2
        /\ stats.packet_loss = [num |-> 2, den |-> 7]
        /\ stats.connection_quality = "Critical"

C11_Witness == updates = S3Updates /\ qm.last_sequence = 7 /\ stats # NoStats

\* the sequence numbers a log of update calls accounts for: every one that
\* arrived, and every one skipped between two consecutive arrivals (the gap
\* update counts when the earlier arrival was not 0)
RECURSIVE Accounted(_)
Accounted(log) ==
    IF log = <<>> THEN {}
    ELSE LET n == Len(log)
             before == SubSeq(log, 1, n - 1)
             gap == IF n > 1 /\ log[n - 1] # 0 /\ log[n] > log[n - 1]
                    THEN (log[n - 1] + 1) .. (log[n] - 1)
                    ELSE {}
         IN  Accounted(before) \cup gap \cup {log[n]}

\* C12 (MonSpec): after any update calls (in order, out of order,
\* duplicated) packets_received + packets_lost is the number of distinct
\* sequence numbers that arrived or were counted as a gap, so a repeated
\* arrival does not increase the sum.
C12_SumCountsDistinct ==
    ~qm_panicked => qm.packets_received + qm.packets_lost = Cardinality(Accounted(updates))

\* C13 (MonSpec): the loss fraction get_stats returns is
\* packets_lost / (packets_received + packets_lost), is 0 when nothing was
\* received, and lies in [0, 1].
C13_LossIsFraction ==
    ~qm_panicked =>
        LET loss == get_stats(qm).packet_loss
        IN  /\ qm.packets_received = 0 => loss.num = 0 /\ loss.den > 0
            /\ qm.packets_received > 0 =>
                  /\ loss.num = qm.packets_lost
                  /\ loss.den = qm.packets_received + qm.packets_lost
            /\ loss.den > 0
            /\ 0 <= loss.num
            /\ loss.num <= loss.den

\* the rows of the table of spec section 4.3, best first
BucketNames == <<"Excellent", "Good", "Fair", "Poor", "Critical">>

\* how many latency bounds (ms) a mean latency has reached
LatencyRank(ms) == Cardinality({b \in {50, 100, 150, 200} : ms >= b})

\* how many loss bounds (percent) a loss fraction has reached
LossRank(loss) == Cardinality({p \in {1, 2, 5, 10} : loss.num * 100 >= p * loss.den})

\* C14 (StatsSpec): the bucket get_stats returns is a function of the mean
\* latency in whole ms and the loss fraction it returns: the first row of
\* the table both are strictly below, a value on a bound falling into the
\* next row; (30 ms, 0.5 %) is Excellent and (120 ms, 3 %) is Fair.
C14_BucketTable ==
    stats # NoStats =>
        /\ stats.connection_quality =
              BucketNames[Max(LatencyRank(stats.latency), LossRank(stats.packet_loss)) + 1]
        /\ stats.latency = 30 /\ stats.packet_loss = [num |-> 1, den |-> 200]
              => stats.connection_quality = "Excellent"
        /\ stats.latency = 120 /\ stats.packet_loss = [num |-> 3, den |-> 100]
              => stats.connection_quality = "Fair"

\* get_stats on a mean latency of exactly 50 ms and a loss of exactly 1 %
C14_Witness ==
    /\ stats.latency = 50
    /\ stats.packet_loss = [num |-> 1, den |-> 100]
    /\ stats.connection_quality = "Good"

\* a window after one more sample: at most 100 long, the new sample last,
\* the samples before it are the old window, less its oldest if that was full
KeptMostRecent(before, after) ==
    /\ Len(after) <= 100
    /\ Len(after) = Min(Len(before) + 1, 100)
    /\ SubSeq(after, 1, Len(after) - 1) = (IF Len(before) = 100 THEN Tail(before) ELSE before)

\* C15 (WindowSpec): every update leaves the latency window and the jitter
\* window at most 100 samples long; the new latency sample is appended, and
\* when the window was full the oldest sample is the one evicted, so each
\* window holds the most recent samples in arrival order.
C15_WindowsKeepMostRecent ==
    [][(updates' # updates /\ ~qm_panicked') =>
          /\ KeptMostRecent(qm.latency_samples, qm'.latency_samples)
          /\ KeptMostRecent(qm.jitter_samples, qm'.jitter_samples)
          /\ qm'.latency_samples[Len(qm'.latency_samples)]
                = qm'.last_packet_time - qm.last_packet_time
          /\ Len(qm'.latency_samples) = Min(Len(updates'), 100)
          /\ Len(qm'.jitter_samples) = Min(Len(updates'), 100)]_vars

\* more than 100 update calls were made and both windows are full
C15_Witness ==
    /\ Len(updates) > 100
    /\ ~qm_panicked
    /\ Len(qm.latency_samples) = 100
    /\ Len(qm.jitter_samples) = 100

---------------------------------------------------------------------------
(* Claims about the peer registry, under RecvSpec *)

\* the step is a call add_peer(a)
IsAddPeer(a) ==
    /\ counts'.peer_ops = counts.peer_ops + 1
    /\ last_call'.op = "add_peer"
    /\ last_call'.addr = a

\* the number of entries of the peer list that are a
Entries(list, a) == Cardinality({i \in DOMAIN list : list[i] = a})

\* C16 (RecvSpec): add_peer(a) on an unregistered address appends one entry
\* for a and gives it a fresh JitterBuffer(20, 50) and a fresh
\* QualityMonitor; add_peer(a) on a registered address changes nothing, the
\* registry keeps its one entry for a with the buffer and monitor it had.
C16_AddPeerIdempotent ==
    [][\A a \in Addrs : IsAddPeer(a) =>
          IF a \notin Range(peers)
          THEN /\ peers' = Append(peers, a)
               /\ Entries(peers', a) = 1
               /\ jitter_buffers'[a] = JitterBuffer_new(20, 50)
               /\ quality_monitors'[a].packets_received = 0
               /\ quality_monitors'[a].packets_lost = 0
               /\ quality_monitors'[a].last_sequence = 0
               /\ quality_monitors'[a].latency_samples = <<>>
               /\ quality_monitors'[a].jitter_samples = <<>>
               /\ \A b \in Addrs \ {a} :
                     /\ b \in DOMAIN jitter_buffers' <=> b \in DOMAIN jitter_buffers
                     /\ b \in DOMAIN quality_monitors' <=> b \in DOMAIN quality_monitors
          ELSE /\ Entries(peers', a) = 1
               /\ UNCHANGED <<peers, jitter_buffers, quality_monitors>>]_vars

\* add_peer was just called on an address that was registered, next to
\* another registered address
C16_Witness ==
    /\ last_call.op = "add_peer"
    /\ last_call.registered
    /\ Len(peers) = 2
    /\ DOMAIN jitter_buffers = Addrs

\* C17 (RecvSpec): the peer list, the jitter-buffer map and the
\* quality-monitor map have the same key set in every reachable state, so
\* after remove_peer(a) no state for a is left.
C17_SameKeySets ==
    /\ DOMAIN jitter_buffers = Range(peers)
    /\ DOMAIN quality_monitors = Range(peers)

---------------------------------------------------------------------------
(* Claims about the TURN client, under TurnSpec *)

\* the IPv4 XOR-RELAYED-ADDRESS attributes of a response, in order
IPv4Relayed(attrs) ==
    SelectSeq(attrs, LAMBDA a : a.kind = "XOR-RELAYED-ADDRESS" /\ a.family = 1)

\* C18 (TurnSpec): process_turn_response returns an address only for a
\* response of type 0x0103 that contains an IPv4 XOR-RELAYED-ADDRESS
\* attribute, and the address and port it returns are the ones the first
\* such attribute encodes (port XOR 0x2112, address bytes XOR the bytes of
\* 0x2112A442); a complete response of that kind always yields them; every
\* other message type yields no address, setup_turn_connection returns its
\* Err and no AudioNetwork is created.
C18_RelayedAddressRoundTrip ==
    turn.phase = "done" =>
        LET f == turn.fixture
            r == turn.result
            relayed == IPv4Relayed(f.attrs)
        IN  /\ r.kind = "addr" =>
                  /\ f.message_type = 259
                  /\ relayed # <<>>
                  /\ r.ip = relayed[1].ip
                  /\ r.port = relayed[1].port
                  /\ turn.outcome = "ok"
            /\ (f.message_type = 259 /\ relayed # <<>> /\ f.cut = 0) => r.kind = "addr"
            /\ f.message_type # 259 =>
                  /\ r.kind = "none"
                  /\ turn.outcome = "err"
                  /\ ~turn.network

\* an address with a byte equal to the cookie's and the largest port was
\* parsed from a success response that carries an IPv6 attribute before it
C18_Witness ==
    /\ turn.phase = "done"
    /\ turn.fixture.message_type = 259
    /\ Len(turn.fixture.attrs) = 2
    /\ turn.fixture.attrs[1].family = 2
    /\ turn.result = SomeAddress(<<33, 18, 255, 0>>, 65535)
    /\ turn.network

\* an error response whose first attribute is ERROR-CODE
ErrorResponse(f) ==
    /\ BitAnd(f.message_type, 272) = 272
    /\ f.attrs # <<>>
    /\ f.attrs[1].kind = "ERROR-CODE"
    /\ f.cut = 0

\* C19 (TurnSpec): when the response is an error response carrying
\* ERROR-CODE with class c and number n, the allocation fails with an error
\* that carries c * 100 + n to the caller (401 for class 4, number 1), and
\* no AudioNetwork is created.
C19_ErrorCodeSurfaced ==
    (turn.phase = "done" /\ ErrorResponse(turn.fixture)) =>
        /\ turn.outcome = "err"
        /\ turn.error.code = turn.fixture.attrs[1].class * 100 + turn.fixture.attrs[1].number
        /\ ~turn.network

\* C20 (TurnSpec): a response is accepted as the answer to the allocation
\* request only if its 12 transaction-id bytes are those of the request; a
\* success response with another transaction id yields no relayed address.
C20_TransactionIdMatched ==
    (turn.phase = "done" /\ turn.result.kind = "addr") =>
        /\ Len(turn.transaction_id) = 12
        /\ SubSeq(turn.response, 9, 20) = turn.transaction_id

---------------------------------------------------------------------------
(* Claims about the receive pipeline and the registry, under RecvSpec *)

\* get_next_packet called until it returns None: the buffer left and the
\* payloads released, in order
RECURSIVE DrainAll(_)
DrainAll(b) ==
    LET r == get_next_packet(b)
    IN  IF ~r.ret.some
        THEN [jb |-> b, out |-> <<>>]
        ELSE LET rest == DrainAll(r.jb)
             IN  [jb |-> rest.jb, out |-> <<r.ret.data>> \o rest.out]

\* C22 (as claimed): for each datagram from a registered peer the receive
\* pipeline inserts (sequence, payload) into that peer's jitter buffer, and
\* what it publishes on the decoded-frame broadcast are the payloads
\* get_next_packet released from that buffer, and nothing else.
C22_PublishedFromJitterBuffer ==
    [][\A a \in Addrs :
          (/\ ReceivedOne
           /\ last_rx'.addr = a
           /\ a \in Range(peers)
           /\ a \in DOMAIN rx.jitter_buffers
           /\ Len(last_rx'.dgram) >= HeaderLen
           /\ ~rx'.panicked)
          => LET dgram == last_rx'.dgram
                 inserted == add_packet(rx.jitter_buffers[a], FromBE32(dgram),
                                        SubSeq(dgram, HeaderLen + 1, Len(dgram)))
                 drained == DrainAll(inserted)
             IN  /\ rx'.jitter_buffers[a] = drained.jb
                 /\ audio_pub' = audio_pub \o
                        [i \in 1 .. Len(drained.out) |-> [data |-> drained.out[i], addr |-> a]]]_vars

\* C30 (as claimed): a peer registered with add_peer at any time, also after
\* handle_incoming started the receive task, is known to the receive task:
\* each later datagram from it updates its quality monitor and publishes
\* one (peer, stats) message on the stats broadcast.
C30_LatePeerKnown ==
    [][\A a \in Addrs :
          (/\ ReceivedOne
           /\ last_rx'.addr = a
           /\ a \in Range(peers)
           /\ Len(last_rx'.dgram) >= HeaderLen
           /\ ~rx'.panicked)
          => /\ a \in DOMAIN rx'.quality_monitors
             /\ a \in DOMAIN rx.quality_monitors
             /\ rx'.quality_monitors[a].packets_received
                    = rx.quality_monitors[a].packets_received + 1
             /\ Len(stats_pub') = Len(stats_pub) + 1
             /\ stats_pub'[Len(stats_pub')].addr = a]_vars

---------------------------------------------------------------------------
(* Claims about QualityMonitor.update, under MonSpec *)

\* C23 (as claimed): an update that is not the monitor's first and whose
\* sequence is greater than last_sequence grows packets_lost by exactly
\* sequence - last_sequence - 1; every other update (the first, whatever
\* its sequence; a duplicate; a sequence below last_sequence) leaves
\* packets_lost unchanged, and no arithmetic underflows.
C23_LostGrowsByGap ==
    [][updates' # updates =>
          LET sequence == updates'[Len(updates')]
          IN  /\ ~qm_panicked'
              /\ qm'.packets_lost =
                    IF updates # <<>> /\ sequence > qm.last_sequence
                    THEN qm.packets_lost + (sequence - qm.last_sequence - 1)
                    ELSE qm.packets_lost]_vars

\* C27 (as claimed): update pushes a jitter sample only when a latency
\* sample of an earlier update exists: after the first update of a fresh
\* monitor the jitter window is empty, and after k >= 1 updates it holds
\* min(k - 1, 100) samples.
C27_JitterNeedsEarlierSample ==
    (updates # <<>> /\ ~qm_panicked) =>
        Len(qm.jitter_samples) = Min(Len(updates) - 1, WindowCap)

---------------------------------------------------------------------------
(* Claims about get_next_packet and adapt_delay, under JBSpec *)

\* get_next_packet has a packet to release
ReleaseDue == jb.buffer # <<>> /\ Len(jb.buffer) * 10 >= jb.current_delay

\* C25 (JBSpec): get_next_packet returns a payload exactly when the buffer
\* is non-empty and buffered_packets * 10 >= current_delay; it then removes
\* and returns the front entry, which has the lowest sequence, and sets
\* last_sequence to that entry's sequence; otherwise it returns nothing and
\* leaves the buffer, current_delay and last_sequence unchanged.
C25_GetNextPacketEffect ==
    /\ [](LET r == get_next_packet(jb)
          IN  /\ r.ret.some <=> ReleaseDue
              /\ ~ReleaseDue => r.jb = jb)
    /\ [][adds' = adds =>
             /\ ReleaseDue
             /\ released' = Append(released, Head(jb.buffer).data)
             /\ jb' = [jb EXCEPT !.buffer = Tail(jb.buffer),
                                 !.last_sequence = Head(jb.buffer).seq]
             /\ \A i \in DOMAIN jb.buffer : Head(jb.buffer).seq <= jb.buffer[i].seq]_vars

\* a packet was released while another stays buffered, held back by the delay
C25_Witness ==
    /\ released # <<>>
    /\ jb.buffer # <<>>
    /\ ~ReleaseDue
    /\ jb.last_sequence > 0

\* C26 (as claimed): add_packet(sequence, _) adapts the delay: with
\* sequence > last_sequence and gap = sequence - last_sequence - 1 > 0,
\* current_delay becomes min(current_delay + gap, max_delay); with
\* sequence = last_sequence + 1 it becomes max(current_delay - 1, min_delay);
\* with sequence <= last_sequence it is unchanged; add_packet never changes
\* last_sequence.
C26_AdaptDelayRule ==
    [][adds' = adds + 1 =>
          LET sequence == last_added'
              gap == sequence - jb.last_sequence - 1
          IN  /\ ~panicked'
              /\ jb'.last_sequence = jb.last_sequence
              /\ jb'.current_delay =
                    IF sequence > jb.last_sequence /\ gap > 0
                    THEN Min(jb.current_delay + gap, jb.max_delay)
                    ELSE IF sequence = jb.last_sequence + 1
                    THEN Max(jb.current_delay - 1, jb.min_delay)
                    ELSE jb.current_delay]_vars

---------------------------------------------------------------------------
(* Claims about failed sends, under SendSpec *)

\* the peers a send path sends one frame to: the streaming task's list, or
\* the registry when send_audio is called
TargetsOf(f) == IF f.path = "stream" THEN stream.peers ELSE f.registry

\* C28 (as claimed): a failed send to one peer does not stop the pipeline:
\* the same frame is still sent to every remaining peer, by send_audio as
\* well as by the streaming task.
C28_FailedSendSkipsNoPeer ==
    \A i \in DOMAIN frames :
        frames[i].failed # {} =>
            \A k \in DOMAIN TargetsOf(frames[i]) :
                \E j \in DOMAIN frames[i].packets :
                    frames[i].packets[j].to = TargetsOf(frames[i])[k]

---------------------------------------------------------------------------
(* Claims about the Allocate request, under AllocSpec *)

\* C24 (as claimed): the MESSAGE-INTEGRITY HMAC of the Allocate request is
\* computed over the request bytes after the header's message_length field
\* was set to the final length, which covers all attributes including
\* MESSAGE-INTEGRITY; the length field is never still the placeholder 0 in
\* the bytes that are hashed.
C24_LengthSetBeforeHmac ==
    turn.phase = "sent" =>
        /\ U16At(turn.hashed, 2) = Len(turn.request) - 20
        /\ U16At(turn.hashed, 2) # 0

---------------------------------------------------------------------------
(* Claims about the streaming session, under SessionSpec *)

\* no receive task and no send task of any session is running
TasksEnded ==
    /\ session.recv_tasks = 0
    /\ \A i \in DOMAIN session.send_tasks : session.send_tasks[i].state = "ended"

\* C21 (as claimed): after stop_streaming dropped the network, the receive
\* task and the send task spawned for the session each eventually
\* terminate; neither keeps looping (until a new session is started).
C21_TasksEndAfterStop == session.stopped ~> (TasksEnded \/ ~session.stopped)

\* C29 (as claimed): after start_streaming the channel the capture callback
\* writes to is the channel the send task drains, and the send task does
\* not end while capture is running, so every frame the callback hands to
\* its channel is taken by the send task.
C29_CaptureFeedsSendTask ==
    (session.network /\ session.capture # <<>> /\ session.send_tasks # <<>>) =>
        LET task == session.send_tasks[Len(session.send_tasks)]
        IN  /\ task.chan = session.capture
            /\ task.state = "running"

---------------------------------------------------------------------------
(* Claims about the decoded-frame broadcast, under LagSpec *)

\* C31 (as claimed): a decoded-frame subscriber that falls more than 100
\* frames behind loses the oldest frames but is not ended by it: the
\* decoder task that handle_incoming spawned keeps running and processes
\* the frames published after the lag.
C31_LaggingDecoderKeepsRunning == rx.started => rx.decoder.running


\* C32 (as claimed): for every response buffer, whatever its length and content, process_turn_response returns and never reads a byte at an index beyond the end of the buffer: the attribute walk stops at end-of-buffer, also when an attribute's header is present but its value is truncated.
C32_NoReadPastEnd ==
    turn.phase = "done" => turn.result # IndexPanic

=============================================================================
